---- MODULE Spec2Model ----
(***************************************************************************)
(* Real-time trip processing: the ingestion handler (src/lambda/lambda.py) *)
(* that validates trip events and upserts them into the TripData and       *)
(* TripDataErrors tables, and the batch aggregation job                   *)
(* (src/glue/glue.py) that filters completed trips, computes daily KPIs    *)
(* and keeps the ledger of processed dates.                                *)
(*                                                                         *)
(* Numbers are integers counting hundredths (10.00 is 1000).               *)
(***************************************************************************)
EXTENDS Integers, Sequences, FiniteSets, TLC

\* ------------------------------------------------------------------ bounds
MaxEvents == 3
MaxBatch == 2
NumWorkers == 2
MaxRuns == 3
MaxArgLen == 3

Range(seq) == {seq[i] : i \in DOMAIN seq}

\* ------------------------------------------------------- Python values
\* A decoded JSON value: str, int, float, None; Decimal after conversion.
PyStr(s) == [ty |-> "str", s |-> s, n |-> 0]
PyInt(n) == [ty |-> "int", s |-> "", n |-> n]
PyFloat(n) == [ty |-> "float", s |-> "", n |-> n]
PyDecimal(n) == [ty |-> "Decimal", s |-> "", n |-> n]
PyNone == [ty |-> "none", s |-> "", n |-> 0]

\* DynamoDB attribute values: S, N, NULL; a float is refused by the serializer.
AttrS(s) == [ty |-> "S", s |-> s, n |-> 0]
AttrN(n) == [ty |-> "N", s |-> "", n |-> n]
AttrNULL == [ty |-> "NULL", s |-> "", n |-> 0]
AttrUnsupported == [ty |-> "TypeError", s |-> "", n |-> 0]

\* str.strip() on the strings of the model: whitespace-only strings become "".
WhitespaceOnly == {"", " ", "  "}
Strip(s) == IF s \in WhitespaceOnly THEN "" ELSE s

\* convert_floats_to_decimal on a scalar: Decimal(str(f)) for a float.
convert_value(v) == IF v.ty = "float" THEN PyDecimal(v.n) ELSE v

\* convert_floats_to_decimal on a flat dict.
convert_floats_to_decimal(obj) == [k \in DOMAIN obj |-> convert_value(obj[k])]

\* What the table resource stores for a Python value passed to update_item.
Serialize(v) ==
    CASE v.ty = "str" -> AttrS(v.s)
      [] v.ty = "int" -> AttrN(v.n)
      [] v.ty = "Decimal" -> AttrN(v.n)
      [] v.ty = "none" -> AttrNULL
      [] OTHER -> AttrUnsupported

SerializeMap(obj) == [k \in DOMAIN obj |-> Serialize(obj[k])]

\* Only None and '' count as blank: no strip(), no 'null'.
is_blank_none_or_empty(val) == val.ty = "none" \/ (val.ty = "str" /\ val.s = "")

\* is_blank: None, a string that strips to '', or the string 'null'.
is_blank(val) ==
    \/ val.ty = "none"
    \/ (val.ty = "str" /\ Strip(val.s) = "")
    \/ (val.ty = "str" /\ val.s = "null")

\* dict.get(key): None when the key is absent.
Get(data, key) == IF key \in DOMAIN data THEN data[key] ELSE PyNone

isinstance_str(val) == val.ty = "str"

\* ------------------------------------------------------- validate_record
StartRequired ==
    <<"trip_id", "pickup_location_id", "dropoff_location_id", "vendor_id",
      "pickup_datetime">>

EndRequired ==
    <<"trip_id", "dropoff_datetime", "fare_amount", "payment_type",
      "trip_distance">>

\* The indexes of the required fields that are absent or blank.
FailingIndexes(data, required_fields) ==
    {i \in 1..Len(required_fields) :
        \/ required_fields[i] \notin DOMAIN data
        \/ is_blank(data[required_fields[i]])}

\* The loop keeps going and reports the last field that fails.
LastFailing(data, required_fields) ==
    LET bad == FailingIndexes(data, required_fields)
    IN required_fields[CHOOSE i \in bad : \A j \in bad : j <= i]

\* The first field of the loop `for field in required_fields` that fails.
FirstFailing(data, required_fields) ==
    LET bad == FailingIndexes(data, required_fields)
    IN required_fields[CHOOSE i \in bad : \A j \in bad : i <= j]

MissingReason(field, phase) ==
    "Missing, null, or blank required field '" \o field \o "' in " \o phase

validate_record(data) ==
    LET trip_id == Get(data, "trip_id")
    IN IF is_blank(trip_id) \/ ~isinstance_str(trip_id)
       THEN [valid |-> FALSE, reason |-> "Missing or invalid trip_id"]
       ELSE IF "pickup_location_id" \in DOMAIN data
       THEN IF FailingIndexes(data, StartRequired) # {}
            THEN [valid |-> FALSE,
                  reason |-> MissingReason(FirstFailing(data, StartRequired), "trip_start")]
            ELSE [valid |-> TRUE, reason |-> "trip_start"]
       ELSE IF "dropoff_datetime" \in DOMAIN data
       THEN IF FailingIndexes(data, EndRequired) # {}
            THEN [valid |-> FALSE,
                  reason |-> MissingReason(FirstFailing(data, EndRequired), "trip_end")]
            ELSE [valid |-> TRUE, reason |-> "trip_end"]
       ELSE [valid |-> FALSE, reason |-> "Unknown record type - missing key fields"]

\* ---------------------------------------------------- the two tables
\* A table is a function from the keys present to items; an item is a
\* function from attribute names to attribute values (the key included).

\* A put_item in place of the update: the item is replaced by the named attributes.
UpdateItemPut(tbl, key, values) ==
    LET new == [f \in {"trip_id"} \cup DOMAIN values |->
                   IF f \in DOMAIN values THEN values[f] ELSE AttrS(key)]
    IN [k \in DOMAIN tbl \cup {key} |-> IF k = key THEN new ELSE tbl[k]]

\* An "ADD" in place of the "SET": a number is added to the stored number.
UpdateItemAdd(tbl, key, values) ==
    LET old == IF key \in DOMAIN tbl THEN tbl[key]
               ELSE [f \in {"trip_id"} |-> AttrS(key)]
        new == [f \in DOMAIN old \cup DOMAIN values |->
                   IF f \notin DOMAIN values THEN old[f]
                   ELSE IF f \in DOMAIN old /\ old[f].ty = "N" /\ values[f].ty = "N"
                   THEN AttrN(old[f].n + values[f].n)
                   ELSE values[f]]
    IN [k \in DOMAIN tbl \cup {key} |-> IF k = key THEN new ELSE tbl[k]]

\* update_item with "SET a = :a, b = :b, ...": creates the item when the key
\* is new, sets exactly the named attributes, keeps every other attribute.
UpdateItemSet(tbl, key, values) ==
    LET old == IF key \in DOMAIN tbl THEN tbl[key]
               ELSE [f \in {"trip_id"} |-> AttrS(key)]
        new == [f \in DOMAIN old \cup DOMAIN values |->
                   IF f \in DOMAIN values THEN values[f] ELSE old[f]]
    IN [k \in DOMAIN tbl \cup {key} |-> IF k = key THEN new ELSE tbl[k]]

\* The attribute values the handler names in its update expression: every
\* field of the converted payload except trip_id.
expression_attribute_values(data) ==
    LET conv == convert_floats_to_decimal(data)
    IN [k \in DOMAIN conv \ {"trip_id"} |-> Serialize(conv[k])]

\* The serializer raises on a value it does not support.
SerializerRaises(values) == \E k \in DOMAIN values : values[k].ty = "TypeError"

\* The merge of one validated event into TripData.
MergeEvent(tbl, data) ==
    UpdateItemSet(tbl, data["trip_id"].s, expression_attribute_values(data))

\* list_append with its arguments swapped: the new entry goes first.
upsert_error_record_prepend(etbl, trip_id, reason, original_data, timestamp) ==
    LET converted == convert_floats_to_decimal(original_data)
        reasons == IF trip_id \in DOMAIN etbl THEN etbl[trip_id].error_reasons ELSE <<>>
        stamps == IF trip_id \in DOMAIN etbl THEN etbl[trip_id].error_timestamps ELSE <<>>
        item == [trip_id |-> trip_id,
                 error_reasons |-> <<reason>> \o reasons,
                 error_timestamps |-> <<timestamp>> \o stamps,
                 original_data |-> SerializeMap(converted)]
    IN [k \in DOMAIN etbl \cup {trip_id} |-> IF k = trip_id THEN item ELSE etbl[k]]

\* No list_append: the lists are set to the new entry alone.
upsert_error_record_overwrite(etbl, trip_id, reason, original_data, timestamp) ==
    LET converted == convert_floats_to_decimal(original_data)
        item == [trip_id |-> trip_id,
                 error_reasons |-> <<reason>>,
                 error_timestamps |-> <<timestamp>>,
                 original_data |-> SerializeMap(converted)]
    IN [k \in DOMAIN etbl \cup {trip_id} |-> IF k = trip_id THEN item ELSE etbl[k]]

\* The first write only creates the record with empty lists.
upsert_error_record_create_empty(etbl, trip_id, reason, original_data, timestamp) ==
    LET converted == convert_floats_to_decimal(original_data)
        item == [trip_id |-> trip_id,
                 error_reasons |->
                    IF trip_id \in DOMAIN etbl
                    THEN etbl[trip_id].error_reasons \o <<reason>> ELSE <<>>,
                 error_timestamps |->
                    IF trip_id \in DOMAIN etbl
                    THEN etbl[trip_id].error_timestamps \o <<timestamp>> ELSE <<>>,
                 original_data |-> SerializeMap(converted)]
    IN [k \in DOMAIN etbl \cup {trip_id} |-> IF k = trip_id THEN item ELSE etbl[k]]

\* upsert_error_record: one update_item that appends the reason and the
\* timestamp (starting from empty lists when absent) and replaces original_data.
upsert_error_record(etbl, trip_id, reason, original_data, timestamp) ==
    LET converted == convert_floats_to_decimal(original_data)
        reasons == IF trip_id \in DOMAIN etbl THEN etbl[trip_id].error_reasons ELSE <<>>
        stamps == IF trip_id \in DOMAIN etbl THEN etbl[trip_id].error_timestamps ELSE <<>>
        item == [trip_id |-> trip_id,
                 error_reasons |-> reasons \o <<reason>>,
                 error_timestamps |-> stamps \o <<timestamp>>,
                 original_data |-> SerializeMap(converted)]
    IN [k \in DOMAIN etbl \cup {trip_id} |-> IF k = trip_id THEN item ELSE etbl[k]]

\* A new identifier only when trip_id is None: 'null' and blank strings are
\* kept as keys.
NeedsUuidWhenNone(data) == Get(data, "trip_id").ty = "none"

\* The key an invalid event is quarantined under: its own trip_id when that is
\* a non-blank string, else str(uuid.uuid4()), here the next unused identifier.
NeedsUuid(data) ==
    is_blank(Get(data, "trip_id")) \/ ~isinstance_str(Get(data, "trip_id"))

\* One fixed identifier in place of a generated one.
UuidFixed(i) == "uuid-0"

Uuid(i) == "uuid-" \o ToString(i)

QuarantineKey(data, used) ==
    IF NeedsUuid(data) THEN Uuid(used + 1) ELSE data["trip_id"].s

\* The loop body ends the iteration at once on the first store it writes:
\* every event is sent to the error table.
destination_errors_only(valid) == "TripDataErrors"

\* `if not is_valid: upsert_error_record(...); continue`, else table.update_item.
destination(valid) == IF ~valid THEN "TripDataErrors" ELSE "TripData"

\* The except clause logs the error and counts nothing.
count_failed_skipped(failed) == failed

\* `failed_records += 1` of the two except clauses inside the loop.
count_failed(failed) == failed + 1

\* The exception leaves the loop: no further record is handled.
after_except_break(left) == 0

\* The except clauses inside the loop count the record as failed and the loop
\* goes on with the records that are left.
after_except(left) == left - 1

\* ------------------------------------------------------------ the events
TripIds == {"t1", "t2", "t3"}

StartEvent(t, stamp) ==
    [trip_id |-> PyStr(t), pickup_location_id |-> PyInt(9300),
     dropoff_location_id |-> PyInt(6800), vendor_id |-> PyInt(100),
     pickup_datetime |-> PyStr("2024-06-01T10:00:00Z"),
     event_timestamp |-> PyStr(stamp)]

EndEvent(t, dropoff, fare, stamp) ==
    [trip_id |-> PyStr(t), dropoff_datetime |-> PyStr(dropoff),
     fare_amount |-> fare, payment_type |-> PyStr("cash"),
     trip_distance |-> PyFloat(250), event_timestamp |-> PyStr(stamp)]

\* An event that carries both discriminators and every field of both phases.
FullEvent(t, dropoff, fare, stamp) ==
    [trip_id |-> PyStr(t), pickup_location_id |-> PyInt(9300),
     dropoff_location_id |-> PyInt(6800), vendor_id |-> PyInt(100),
     pickup_datetime |-> PyStr("2024-06-01T10:00:00Z"),
     dropoff_datetime |-> PyStr(dropoff),
     fare_amount |-> fare, payment_type |-> PyStr("card"),
     trip_distance |-> PyFloat(250), event_timestamp |-> PyStr(stamp)]

Start1 == StartEvent("t1", "2024-06-01T10:00:01.000001Z")
End1 == EndEvent("t1", "2024-06-01T10:30:00Z", PyFloat(1000), "2024-06-01T10:30:02.000002Z")
Full1 == FullEvent("t1", "2024-06-02T09:15:00", PyFloat(3000), "2024-06-02T09:15:03.000003Z")
Start2 == StartEvent("t2", "2024-06-01T10:00:01.000001Z")
End2 == EndEvent("t2", "2024-06-01T10:30:00Z", PyFloat(2000), "2024-06-01T10:30:02.000002Z")

\* Invalid events: a start without vendor_id, an end whose fare is 'null',
\* an event with neither discriminator, and events without a usable trip_id.
StartNoVendor1 ==
    [trip_id |-> PyStr("t1"), pickup_location_id |-> PyInt(9300),
     dropoff_location_id |-> PyInt(6800),
     pickup_datetime |-> PyStr("2024-06-01T10:00:00Z")]
EndNullFare1 == EndEvent("t1", "2024-06-01T10:30:00Z", PyStr("null"), "2024-06-01T10:30:02.000002Z")
Unknown2 == [trip_id |-> PyStr("t2"), event_timestamp |-> PyStr("2024-06-01T10:00:01.000001Z")]
NullIdStart ==
    [trip_id |-> PyStr("null"), pickup_location_id |-> PyInt(9300),
     dropoff_location_id |-> PyInt(6800), vendor_id |-> PyInt(100),
     pickup_datetime |-> PyStr("2024-06-01T10:00:00Z")]
NoIdEnd ==
    [dropoff_datetime |-> PyStr("2024-06-01T10:30:00Z"), fare_amount |-> PyFloat(1000),
     payment_type |-> PyStr("cash"), trip_distance |-> PyFloat(250)]

Events ==
    {Start1, End1, Full1, Start2, End2, StartNoVendor1, EndNullFare1, Unknown2,
     NullIdStart, NoIdEnd}

\* A Kinesis record: a JSON object, or bytes that do not decode to one.
JsonRecord(data) == [kind |-> "json", data |-> data]
Undecodable == [kind |-> "undecodable", data |-> [trip_id |-> PyNone]]
Records == {JsonRecord(e) : e \in Events} \cup {Undecodable}

ValidEvents == {e \in Events : validate_record(e).valid}
PhaseOf(e) == validate_record(e).reason

\* ------------------------------------------ glue: the completeness filter
\* parse_dynamodb_item on one attribute value: S gives the string, N gives a
\* Decimal, any other typed value ({'NULL': True}) is returned as it is, a dict.
convert_dynamodb_types(value) ==
    CASE value.ty = "S" -> PyStr(value.s)
      [] value.ty = "N" -> PyDecimal(value.n)
      [] OTHER -> [ty |-> "dict", s |-> value.ty, n |-> 0]

parse_dynamodb_item(item) == [k \in DOMAIN item |-> convert_dynamodb_types(item[k])]

\* scan_dynamodb: the items of the table in the order the scan returns them.
scan_dynamodb(tbl, order) == [i \in 1..Len(order) |-> tbl[order[i]]]

\* The orders in which a scan may return the keys of the table.
ScanOrders(tbl) ==
    {o \in [1..Cardinality(DOMAIN tbl) -> DOMAIN tbl] :
        \A i, j \in DOMAIN o : i # j => o[i] # o[j]}

FilterRequiredEndOnly ==
    <<"trip_id", "dropoff_datetime", "fare_amount", "payment_type", "trip_distance">>

\* required_fields of filter_completed_trips.
FilterRequired ==
    <<"trip_id", "pickup_location_id", "dropoff_location_id", "vendor_id",
      "pickup_datetime", "dropoff_datetime", "fare_amount", "payment_type",
      "trip_distance">>

\* trip[field] not in (None, '', 'null')
NotNullOrEmpty(val) ==
    ~(val.ty = "none" \/ (val.ty = "str" /\ val.s \in {"", "null"}))

AllRequiredPresent(trip) ==
    \A i \in 1..Len(FilterRequired) :
        /\ FilterRequired[i] \in DOMAIN trip
        /\ NotNullOrEmpty(trip[FilterRequired[i]])

\* Decimal(text) for the strings of the model; any other text raises.
DecimalOfString(text) ==
    CASE text = "12.50" -> [ok |-> TRUE, nan |-> FALSE, n |-> 1250]
      [] text = "10.00" -> [ok |-> TRUE, nan |-> FALSE, n |-> 1000]
      [] text = "20.00" -> [ok |-> TRUE, nan |-> FALSE, n |-> 2000]
      [] text = "30.00" -> [ok |-> TRUE, nan |-> FALSE, n |-> 3000]
      [] text = "0" -> [ok |-> TRUE, nan |-> FALSE, n |-> 0]
      [] text = "-5.00" -> [ok |-> TRUE, nan |-> FALSE, n |-> 0 - 500]
      [] text = "NaN" -> [ok |-> TRUE, nan |-> TRUE, n |-> 0]
      [] OTHER -> [ok |-> FALSE, nan |-> FALSE, n |-> 0]

\* Decimal(str(value)) for a parsed attribute.
DecimalOf(val) ==
    CASE val.ty = "Decimal" -> [ok |-> TRUE, nan |-> FALSE, n |-> val.n]
      [] val.ty = "str" -> DecimalOfString(val.s)
      [] OTHER -> [ok |-> FALSE, nan |-> FALSE, n |-> 0]

\* `fare_amount < 0` in place of `fare_amount <= 0`: a fare of zero passes.
FareAcceptedZeroToo(trip) ==
    LET fare_amount == DecimalOf(trip["fare_amount"])
    IN fare_amount.ok /\ ~fare_amount.nan /\ fare_amount.n >= 0

\* The fare check: the amount parses, compares (a NaN raises) and is > 0.
FareAccepted(trip) ==
    LET fare_amount == DecimalOf(trip["fare_amount"])
    IN fare_amount.ok /\ ~fare_amount.nan /\ fare_amount.n > 0

\* One trailing 'Z' is removed before parsing.
StripZ(text) ==
    CASE text = "2024-06-01T10:30:00Z" -> "2024-06-01T10:30:00"
      [] text = "2024-06-03T23:59:59Z" -> "2024-06-03T23:59:59"
      [] text = "2024-06-01T10:00:00Z" -> "2024-06-01T10:00:00"
      [] OTHER -> text

\* datetime.fromisoformat(text).date().isoformat(); "" when it raises.
IsoDate(text) ==
    CASE text = "2024-06-01T10:30:00" -> "2024-06-01"
      [] text = "2024-06-01T10:00:00" -> "2024-06-01"
      [] text = "2024-06-02T09:15:00" -> "2024-06-02"
      [] text = "2024-06-03T23:59:59" -> "2024-06-03"
      [] text = "2024-06-03" -> "2024-06-03"
      [] OTHER -> ""

\* The dropoff date of a trip; "" when the value is no string or does not parse.
dropoff_date(trip) ==
    IF trip["dropoff_datetime"].ty = "str"
    THEN IsoDate(StripZ(trip["dropoff_datetime"].s))
    ELSE ""

\* The body of the loop: the trip is appended to its date's list.
IsCompleted(trip) ==
    /\ AllRequiredPresent(trip)
    /\ FareAccepted(trip)
    /\ dropoff_date(trip) # ""

\* filter_completed_trips: date -> the completed trips of that date, in scan order.
filter_completed_trips(records) ==
    LET trips == [i \in DOMAIN records |-> parse_dynamodb_item(records[i])]
        done == {i \in DOMAIN trips : IsCompleted(trips[i])}
        dates == {dropoff_date(trips[i]) : i \in done}
    IN [d \in dates |->
          LET OnDate(trip) == IsCompleted(trip) /\ dropoff_date(trip) = d
          IN SelectSeq(trips, OnDate)]

\* The trip ids that some scan of the table places in a date group.
TripIdsIn(groups) ==
    UNION {{groups[d][i]["trip_id"].s : i \in DOMAIN groups[d]} : d \in DOMAIN groups}

GroupedTripIds(tbl) ==
    UNION {TripIdsIn(filter_completed_trips(scan_dynamodb(tbl, order))) :
             order \in ScanOrders(tbl)}

\* The dates of the groups in the order the dict got them: first appearance
\* in the scan.
RECURSIVE FirstAppearances(_, _)
FirstAppearances(dates, seen) ==
    IF dates = <<>> THEN <<>>
    ELSE IF Head(dates) \in seen THEN FirstAppearances(Tail(dates), seen)
    ELSE <<Head(dates)>> \o FirstAppearances(Tail(dates), seen \cup {Head(dates)})

group_order(records) ==
    LET trips == [i \in DOMAIN records |-> parse_dynamodb_item(records[i])]
        completed == SelectSeq(trips, IsCompleted)
    IN FirstAppearances([i \in DOMAIN completed |-> dropoff_date(completed[i])], {})

\* ---------------------------------------------------- glue: calculate_kpis
RECURSIVE Gcd(_, _)
Gcd(a, b) == IF b = 0 THEN a ELSE Gcd(b, a % b)

\* A Decimal, and the float made of it: a number of hundredths or the NaN.
Finite(n) == [nan |-> FALSE, n |-> n]
NaN == [nan |-> TRUE, n |-> 0]

\* total_fare / count_trips as an exact fraction in lowest terms; the NaN
\* divided by a count is the NaN.
Divide(total, count) ==
    IF total.nan THEN [nan |-> TRUE, num |-> 0, den |-> 1]
    ELSE LET g == Gcd(IF total.n < 0 THEN 0 - total.n ELSE total.n, count)
         IN [nan |-> FALSE, num |-> total.n \div g, den |-> count \div g]

\* sum(fares): a sum with a NaN among its terms is the NaN.
RECURSIVE SumSeq(_)
SumSeq(xs) ==
    IF xs = <<>> THEN Finite(0)
    ELSE LET rest == SumSeq(Tail(xs))
         IN IF Head(xs).nan \/ rest.nan THEN NaN
            ELSE Finite(Head(xs).n + rest.n)

\* max() and min() compare the fares two by two as soon as there are two of
\* them, and an ordering comparison with a NaN raises InvalidOperation.
CompareRaises(xs) == Len(xs) >= 2 /\ \E i \in DOMAIN xs : xs[i].nan

\* max(fares) and min(fares) where no comparison raises; of one fare, that
\* fare, which is compared with nothing.
MaxOf(xs) ==
    IF Len(xs) = 1 THEN xs[1]
    ELSE CHOOSE m \in {xs[i] : i \in DOMAIN xs} : \A i \in DOMAIN xs : xs[i].n <= m.n
MinOf(xs) ==
    IF Len(xs) = 1 THEN xs[1]
    ELSE CHOOSE m \in {xs[i] : i \in DOMAIN xs} : \A i \in DOMAIN xs : m.n <= xs[i].n

\* The fares of a date: Decimal(str(fare_amount)) of each trip that parses;
\* 'NaN' parses, to the NaN.
FaresOf(trips) ==
    LET Parses(trip) == DecimalOf(trip["fare_amount"]).ok
        good == SelectSeq(trips, Parses)
    IN [i \in DOMAIN good |->
           IF DecimalOf(good[i]["fare_amount"]).nan THEN NaN
           ELSE Finite(DecimalOf(good[i]["fare_amount"]).n)]

\* max() and min() exchanged.
KpiOfMaxMinSwapped(date, fares) ==
    [date |-> date,
     total_fare |-> SumSeq(fares),
     count_trips |-> Len(fares),
     average_fare |-> Divide(SumSeq(fares), Len(fares)),
     max_fare |-> MinOf(fares),
     min_fare |-> MaxOf(fares)]

\* The KPI record of one date.
KpiOf(date, fares) ==
    [date |-> date,
     total_fare |-> SumSeq(fares),
     count_trips |-> Len(fares),
     average_fare |-> Divide(SumSeq(fares), Len(fares)),
     max_fare |-> MaxOf(fares),
     min_fare |-> MinOf(fares)]

\* calculate_kpis: date -> KPI record, for the dates with at least one fare.
\* The call raises, and returns nothing, when max() raises for one of them.
calculate_kpis(trips_by_date) ==
    LET with_fares == {d \in DOMAIN trips_by_date : FaresOf(trips_by_date[d]) # <<>>}
        raised == \E d \in with_fares : CompareRaises(FaresOf(trips_by_date[d]))
    IN [raised |-> raised,
        kpis |-> IF raised THEN <<>>
                 ELSE [d \in with_fares |-> KpiOf(d, FaresOf(trips_by_date[d]))]]

\* ------------------------------------------- glue: the processed-date ledger
\* The dates of the model in the order sorted() gives their ISO strings.
DateOrder == <<"2024-06-01", "2024-06-02", "2024-06-03">>
DateRank(d) == CHOOSE i \in DOMAIN DateOrder : DateOrder[i] = d

RECURSIVE SortedSet(_)
SortedSet(S) ==
    IF S = {} THEN <<>>
    ELSE LET m == CHOOSE x \in S : \A y \in S : DateRank(x) <= DateRank(y)
         IN <<m>> \o SortedSet(S \ {m})

\* sorted(list): the dates in order, each as often as the list holds it.
RECURSIVE SortedList(_)
SortedList(xs) ==
    IF xs = <<>> THEN <<>>
    ELSE LET i == CHOOSE i \in DOMAIN xs : \A j \in DOMAIN xs : DateRank(xs[i]) <= DateRank(xs[j])
             rest == [j \in 1..(Len(xs) - 1) |-> IF j < i THEN xs[j] ELSE xs[j + 1]]
         IN <<xs[i]>> \o SortedList(rest)

\* The state file: absent (NoSuchKey) or {"processed_dates": [...]}.
NoStateFile == [present |-> FALSE, processed_dates |-> <<>>]

\* The state file is read under a wrong key: state.get() falls back to [].
read_state_file_wrong_key(file) == <<>>

\* read_state_file: the stored list, [] when the file does not exist.
read_state_file(file) == IF file.present THEN file.processed_dates ELSE <<>>

\* The list is sorted without set(): duplicates are kept.
write_state_file_keep_duplicates(processed_dates) ==
    [present |-> TRUE, processed_dates |-> SortedList(processed_dates)]

\* write_state_file: the file becomes sorted(list(set(processed_dates))).
write_state_file(processed_dates) ==
    [present |-> TRUE,
     processed_dates |-> SortedSet({processed_dates[i] : i \in DOMAIN processed_dates})]

\* The except clause of write_kpis_to_s3 logs the error and ...
write_kpis_on_error_continue == "continue"

\* ... raises it again, which ends the loop and the run.
write_kpis_on_error == "raise"

\* S3 put_object of a KPI file: the object of that date is replaced.
put_kpi_object(objects, date, kpi) ==
    [d \in DOMAIN objects \cup {date} |-> IF d = date THEN kpi ELSE objects[d]]

\* -------------------------------------------------------------- state
VARIABLES
    table,              \* TripData: trip_id -> item
    error_table,        \* TripDataErrors: key -> item
    pc,                 \* lambda_handler: "idle" or "loop" (inside the for loop)
    remaining,          \* records of the current batch not yet processed
    processed_records,  \* the three counters of the running invocation (0 outside it)
    error_records,
    failed_records,
    response,           \* what the invocation returned; NoResponse while it runs
    now,                \* the clock read by datetime.utcnow()
    uuids,              \* how many uuid4() identifiers were generated
    nEvents,            \* history: records handled so far
    merged,             \* history: trip_id -> the events merged into its item
    qlog,               \* history: key -> the quarantine writes done, in order
    lastMerged,         \* history: the event of the latest merge
    nMerged,            \* history: number of merges done
    record,             \* the record of the latest iteration of the running invocation
    is_valid,           \* what validate_record returned for it
    reason,
    raised,             \* history: what that iteration caught: "none", "decode", "store"
    store_failed,       \* history: records of the invocation whose update_item raised
    batch_size,         \* history: len(event['Records']) of the running invocation
    inflight,           \* concurrent invocations: worker -> what it holds
    raced,              \* history: the kinds of write that overlapped one on the same key
    state_file,         \* S3 state/kpi_state.json: the ledger of processed dates
    kpi_objects,        \* S3 kpi/: date -> the KPI record written
    rpc,                \* the aggregation run: "idle" or "publishing"
    run_processed,      \* the run's processed_dates, as read at its start
    run_kpis,           \* the KPIs the run is to publish: date -> KPI record
    to_write,           \* the dates write_kpis_to_s3 has still to write, in dict order
    runLog,             \* history: the runs, each with its plan and what it wrote
    lastArg,            \* history: the argument of the latest write_state_file
    everStored,         \* history: every date the state file ever held
    lastRead            \* what the latest read_state_file returned

ingestVars ==
    <<table, error_table, pc, remaining, processed_records, error_records,
      failed_records, response, now, uuids, nEvents, merged, qlog, lastMerged,
      nMerged, record, is_valid, reason, raised, store_failed, batch_size>>

\* The locals of one iteration and the history of the invocation.
iterVars == <<record, is_valid, reason, raised, store_failed, batch_size>>

raceVars == <<inflight, raced>>

aggVars ==
    <<state_file, kpi_objects, rpc, run_processed, run_kpis, to_write, runLog,
      lastArg, everStored, lastRead>>

vars == <<ingestVars, raceVars, aggVars>>

NoResponse == [statusCode |-> 0, processed |-> 0, errors |-> 0, failed |-> 0]
NoEvent == [trip_id |-> PyNone]
NoRecord == [kind |-> "none", data |-> NoEvent]
Workers == 1..NumWorkers
Idle == [pc |-> "idle", data |-> NoEvent, key |-> "", reason |-> "", timestamp |-> 0]

Init ==
    /\ table = <<>>
    /\ error_table = <<>>
    /\ pc = "idle"
    /\ remaining = 0
    /\ processed_records = 0
    /\ error_records = 0
    /\ failed_records = 0
    /\ response = NoResponse
    /\ now = 1
    /\ uuids = 0
    /\ nEvents = 0
    /\ merged = [t \in TripIds |-> {}]
    /\ qlog = <<>>
    /\ lastMerged = NoEvent
    /\ nMerged = 0
    /\ record = NoRecord
    /\ is_valid = FALSE
    /\ reason = ""
    /\ raised = "none"
    /\ store_failed = 0
    /\ batch_size = 0
    /\ inflight = [w \in Workers |-> Idle]
    /\ raced = {}
    /\ state_file = NoStateFile
    /\ kpi_objects = <<>>
    /\ rpc = "idle"
    /\ run_processed = <<>>
    /\ run_kpis = <<>>
    /\ to_write = <<>>
    /\ runLog = <<>>
    /\ lastArg = <<>>
    /\ everStored = {}
    /\ lastRead = <<>>

\* History of a quarantine write that succeeded.
LogQuarantine(log, key, why, data) ==
    [k \in DOMAIN log \cup {key} |->
        (IF k \in DOMAIN log THEN log[k] ELSE <<>>)
            \o (IF k = key THEN <<[reason |-> why, data |-> data]>> ELSE <<>>)]

\* ------------------------------------------------------- lambda_handler
\* The handler is invoked with a batch of n records.  An empty batch returns
\* at once; a failure of create_table_if_not_exists is caught by the outer
\* handler and returns 500; otherwise the loop over the records starts.
Invoke(n, tables_ok) ==
    /\ pc = "idle"
    /\ n <= MaxEvents - nEvents
    /\ IF n = 0
       THEN /\ response' = [statusCode |-> 200, processed |-> 0, errors |-> 0, failed |-> 0]
            /\ UNCHANGED <<pc, remaining, batch_size>>
       ELSE IF ~tables_ok
       THEN /\ response' = [statusCode |-> 500, processed |-> 0, errors |-> 0, failed |-> 0]
            /\ UNCHANGED <<pc, remaining, batch_size>>
       ELSE /\ pc' = "loop"
            /\ remaining' = n
            /\ batch_size' = n
            /\ response' = NoResponse
    /\ processed_records' = 0
    /\ error_records' = 0
    /\ failed_records' = 0
    /\ UNCHANGED <<table, error_table, now, uuids, nEvents, merged, qlog, lastMerged, nMerged>>
    /\ UNCHANGED <<record, is_valid, reason, raised, store_failed>>
    /\ UNCHANGED <<raceVars, aggVars>>

\* One iteration of `for record in event['Records']` on record r; store_ok
\* tells whether the table's update_item succeeds.  When decoding raises,
\* is_valid and reason are not assigned; nothing reads them before the next
\* assignment, and they are cleared here.
ProcessRecord(r, store_ok) ==
    /\ pc = "loop"
    /\ remaining > 0
    /\ nEvents' = nEvents + 1
    /\ now' = now + 1
    /\ record' = r
    /\ IF r.kind = "undecodable"
       THEN /\ failed_records' = count_failed(failed_records)
            /\ remaining' = after_except(remaining)
            /\ raised' = "decode"
            /\ is_valid' = FALSE
            /\ reason' = ""
            /\ UNCHANGED <<table, error_table, processed_records, error_records,
                           uuids, merged, qlog, lastMerged, nMerged, store_failed>>
       ELSE /\ is_valid' = validate_record(r.data).valid
            /\ reason' = validate_record(r.data).reason
            /\ IF destination(validate_record(r.data).valid) = "TripDataErrors"
               THEN LET key == QuarantineKey(r.data, uuids)
                    IN /\ uuids' = IF NeedsUuid(r.data) THEN uuids + 1 ELSE uuids
                       /\ IF store_ok
                             /\ ~SerializerRaises(SerializeMap(convert_floats_to_decimal(r.data)))
                          THEN /\ error_table' = upsert_error_record(error_table, key,
                                                    validate_record(r.data).reason, r.data, now)
                               /\ qlog' = LogQuarantine(qlog, key,
                                                    validate_record(r.data).reason, r.data)
                               /\ error_records' = error_records + 1
                               /\ remaining' = remaining - 1
                               /\ raised' = "none"
                               /\ UNCHANGED <<failed_records, store_failed>>
                          ELSE /\ failed_records' = count_failed(failed_records)
                               /\ remaining' = after_except(remaining)
                               /\ raised' = "store"
                               /\ store_failed' = store_failed + 1
                               /\ UNCHANGED <<error_table, qlog, error_records>>
                       /\ UNCHANGED <<table, processed_records, merged, lastMerged, nMerged>>
               ELSE /\ IF store_ok /\ ~SerializerRaises(expression_attribute_values(r.data))
                       THEN /\ table' = MergeEvent(table, r.data)
                            /\ merged' = [merged EXCEPT ![r.data["trip_id"].s] = @ \cup {r.data}]
                            /\ lastMerged' = r.data
                            /\ nMerged' = nMerged + 1
                            /\ processed_records' = processed_records + 1
                            /\ remaining' = remaining - 1
                            /\ raised' = "none"
                            /\ UNCHANGED <<failed_records, store_failed>>
                       ELSE /\ failed_records' = count_failed(failed_records)
                            /\ remaining' = after_except(remaining)
                            /\ raised' = "store"
                            /\ store_failed' = store_failed + 1
                            /\ UNCHANGED <<table, merged, lastMerged, nMerged, processed_records>>
                    /\ UNCHANGED <<error_table, error_records, uuids, qlog>>
    /\ UNCHANGED <<pc, response, batch_size>>
    /\ UNCHANGED <<raceVars, aggVars>>

\* The loop is over: the handler logs the counters and returns 200; its
\* locals end with it.
Return ==
    /\ pc = "loop"
    /\ remaining = 0
    /\ pc' = "idle"
    /\ response' = [statusCode |-> 200, processed |-> processed_records,
                    errors |-> error_records, failed |-> failed_records]
    /\ processed_records' = 0
    /\ error_records' = 0
    /\ failed_records' = 0
    /\ record' = NoRecord
    /\ is_valid' = FALSE
    /\ reason' = ""
    /\ raised' = "none"
    /\ store_failed' = 0
    /\ batch_size' = 0
    /\ UNCHANGED <<table, error_table, remaining, now, uuids, nEvents, merged, qlog,
                   lastMerged, nMerged>>
    /\ UNCHANGED <<raceVars, aggVars>>

Next ==
    \/ \E n \in 0..MaxBatch, tables_ok \in BOOLEAN : Invoke(n, tables_ok)
    \/ \E r \in Records, store_ok \in BOOLEAN : ProcessRecord(r, store_ok)
    \/ Return

Spec == Init /\ [][Next]_vars

\* ------------------------------------------- concurrent invocations
\* Records of different shards are handled by invocations that run at the same
\* time.  Each worker decodes and validates a record, then issues its one
\* update_item; the tables apply each update_item atomically.
WReceive(w, r) ==
    /\ inflight[w].pc = "idle"
    /\ nEvents < MaxEvents
    /\ nEvents' = nEvents + 1
    /\ IF r.kind = "undecodable"
       THEN UNCHANGED <<inflight, uuids, now>>
       ELSE IF ~validate_record(r.data).valid
       THEN /\ inflight' = [inflight EXCEPT ![w] =
                              [pc |-> "quarantine", data |-> r.data,
                               key |-> QuarantineKey(r.data, uuids),
                               reason |-> validate_record(r.data).reason,
                               timestamp |-> now]]
            /\ uuids' = IF NeedsUuid(r.data) THEN uuids + 1 ELSE uuids
            /\ now' = now + 1
       ELSE /\ inflight' = [inflight EXCEPT ![w] =
                              [pc |-> "merge", data |-> r.data,
                               key |-> r.data["trip_id"].s,
                               reason |-> validate_record(r.data).reason,
                               timestamp |-> 0]]
            /\ UNCHANGED <<uuids, now>>
    /\ UNCHANGED <<table, error_table, pc, remaining, processed_records, error_records,
                   failed_records, response, merged, qlog, lastMerged, nMerged, raced>>
    /\ UNCHANGED <<iterVars, aggVars>>

\* Another worker holds a pending write of the same kind for the same key.
Overlaps(w) ==
    \E o \in Workers \ {w} :
        inflight[o].pc = inflight[w].pc /\ inflight[o].key = inflight[w].key

\* The worker's table.update_item is applied (or fails and changes nothing).
WUpdateItem(w, store_ok) ==
    /\ inflight[w].pc = "merge"
    /\ inflight' = [inflight EXCEPT ![w] = Idle]
    /\ IF store_ok /\ ~SerializerRaises(expression_attribute_values(inflight[w].data))
       THEN /\ table' = MergeEvent(table, inflight[w].data)
            /\ merged' = [merged EXCEPT ![inflight[w].key] = @ \cup {inflight[w].data}]
            /\ raced' = IF Overlaps(w) THEN raced \cup {"merge"} ELSE raced
       ELSE UNCHANGED <<table, merged, raced>>
    /\ UNCHANGED <<error_table, pc, remaining, processed_records, error_records,
                   failed_records, response, now, uuids, nEvents, qlog, lastMerged, nMerged>>
    /\ UNCHANGED <<iterVars, aggVars>>

\* The worker's error_table.update_item is applied (or fails).
WUpsertError(w, store_ok) ==
    /\ inflight[w].pc = "quarantine"
    /\ inflight' = [inflight EXCEPT ![w] = Idle]
    /\ IF store_ok /\ ~SerializerRaises(SerializeMap(convert_floats_to_decimal(inflight[w].data)))
       THEN /\ error_table' = upsert_error_record(error_table, inflight[w].key,
                                 inflight[w].reason, inflight[w].data, inflight[w].timestamp)
            /\ qlog' = LogQuarantine(qlog, inflight[w].key, inflight[w].reason, inflight[w].data)
            /\ raced' = IF Overlaps(w) THEN raced \cup {"quarantine"} ELSE raced
       ELSE UNCHANGED <<error_table, qlog, raced>>
    /\ UNCHANGED <<table, pc, remaining, processed_records, error_records,
                   failed_records, response, now, uuids, nEvents, merged, lastMerged, nMerged>>
    /\ UNCHANGED <<iterVars, aggVars>>

NextRace ==
    \/ \E w \in Workers, r \in Records : WReceive(w, r)
    \/ \E w \in Workers, store_ok \in BOOLEAN : WUpdateItem(w, store_ok)
    \/ \E w \in Workers, store_ok \in BOOLEAN : WUpsertError(w, store_ok)

SpecRace == Init /\ [][NextRace]_vars

\* ------------------------------------------------- the aggregation run
\* The tables the runs aggregate: each is what merging a history of valid
\* events leaves in TripData.
Start3 == StartEvent("t3", "2024-06-01T10:00:01.000001Z")
End3 == EndEvent("t3", "2024-06-01T10:30:00Z", PyFloat(3000), "2024-06-01T10:30:02.000002Z")
End3Late == EndEvent("t3", "2024-06-03T23:59:59Z", PyStr("12.50"), "2024-06-03T23:59:59.000004Z")

End3Cheap == EndEvent("t3", "2024-06-01T10:30:00Z", PyStr("12.50"), "2024-06-01T10:30:02.000002Z")

\* Valid trip_end events whose fare is no positive decimal: the number 0, the
\* strings '-5.00', 'abc' and 'NaN'.
End2Zero == EndEvent("t2", "2024-06-01T10:30:00Z", PyInt(0), "2024-06-01T10:30:02.000002Z")
End2Negative == EndEvent("t2", "2024-06-01T10:30:00Z", PyStr("-5.00"), "2024-06-01T10:30:02.000002Z")
End2Text == EndEvent("t2", "2024-06-01T10:30:00Z", PyStr("abc"), "2024-06-01T10:30:02.000002Z")
End2NaN == EndEvent("t2", "2024-06-01T10:30:00Z", PyStr("NaN"), "2024-06-01T10:30:02.000002Z")

Histories ==
    {<<>>, <<Start1>>, <<Start1, End1>>, <<Full1>>,
     <<Start1, End1, Start2, End2>>,
     <<Start1, End1, Start2, End2, Start3, End3>>,
     <<Full1, Start2, End2, Start3, End3Late>>,
     <<Start1, End1, Start3, End3Late>>,
     <<Start1, End1, Start2, End2, Start3, End3Cheap>>,
     <<Start1, End1, Start2, End2Zero>>,
     <<Start2, End2Negative, Start3, End3>>,
     <<Start1, End1, Start2, End2Text, Start3, End3Late>>,
     <<Start2, End2NaN, Start1, End1>>}

RECURSIVE MergeAll(_, _)
MergeAll(tbl, history) ==
    IF history = <<>> THEN tbl
    ELSE MergeAll(MergeEvent(tbl, Head(history)), Tail(history))

InitAgg ==
    \E history \in Histories :
        /\ table = MergeAll(<<>>, history)
        /\ merged = [t \in TripIds |->
                        {history[i] : i \in {j \in DOMAIN history : history[j]["trip_id"].s = t}}]
        /\ nMerged = Len(history)
        /\ lastMerged = IF history = <<>> THEN NoEvent ELSE history[Len(history)]
        /\ error_table = <<>>
        /\ pc = "idle"
        /\ remaining = 0
        /\ processed_records = 0
        /\ error_records = 0
        /\ failed_records = 0
        /\ response = NoResponse
        /\ now = 1
        /\ uuids = 0
        /\ nEvents = Len(history)
        /\ record = NoRecord
        /\ is_valid = FALSE
        /\ reason = ""
        /\ raised = "none"
        /\ store_failed = 0
        /\ batch_size = 0
        /\ qlog = <<>>
        /\ inflight = [w \in Workers |-> Idle]
        /\ raced = {}
        /\ state_file = NoStateFile
        /\ kpi_objects = <<>>
        /\ rpc = "idle"
        /\ run_processed = <<>>
        /\ run_kpis = <<>>
        /\ to_write = <<>>
        /\ runLog = <<>>
        /\ lastArg = <<>>
        /\ everStored = {}
        /\ lastRead = <<>>

EndRun(log, status) == [log EXCEPT ![Len(log)].status = status]

\* A run starts: it reads the ledger, scans TripData, filters the completed
\* trips, computes the KPIs and keeps those whose date is not in the ledger.
\* A failure of the read or of the scan, or calculate_kpis raising, ends the
\* run.
StartRun(order, ok) ==
    /\ rpc = "idle"
    /\ Len(runLog) < MaxRuns
    /\ IF ~ok \/ calculate_kpis(filter_completed_trips(scan_dynamodb(table, order))).raised
       THEN /\ runLog' = Append(runLog, [status |-> "failed", planned |-> FALSE,
                                         plan |-> <<>>, published |-> {}])
            /\ UNCHANGED <<rpc, run_processed, run_kpis, to_write, lastRead>>
       ELSE LET processed_dates == read_state_file(state_file)
                records == scan_dynamodb(table, order)
                kpis == calculate_kpis(filter_completed_trips(records)).kpis
                NotProcessed(d) ==
                    d \in DOMAIN kpis /\ d \notin Range(processed_dates)
                new_dates == SelectSeq(group_order(records), NotProcessed)
                new_kpis == [d \in Range(new_dates) |-> kpis[d]]
            IN /\ rpc' = "publishing"
               /\ run_processed' = processed_dates
               /\ lastRead' = processed_dates
               /\ run_kpis' = new_kpis
               /\ to_write' = new_dates
               /\ runLog' = Append(runLog, [status |-> "running", planned |-> TRUE,
                                            plan |-> new_kpis, published |-> {}])
    /\ UNCHANGED <<state_file, kpi_objects, lastArg, everStored>>
    /\ UNCHANGED <<ingestVars, raceVars>>

\* write_kpis_to_s3, one iteration: the KPI of the next date is put to S3; a
\* failure is logged and raised, which ends the run.
WriteKpi(ok) ==
    /\ rpc = "publishing"
    /\ to_write # <<>>
    /\ IF ok
       THEN /\ kpi_objects' = put_kpi_object(kpi_objects, Head(to_write), run_kpis[Head(to_write)])
            /\ to_write' = Tail(to_write)
            /\ runLog' = [runLog EXCEPT ![Len(runLog)].published = @ \cup {Head(to_write)}]
            /\ UNCHANGED <<rpc, run_processed, run_kpis>>
       ELSE IF write_kpis_on_error = "raise"
       THEN /\ rpc' = "idle"
            /\ runLog' = EndRun(runLog, "failed")
            /\ run_processed' = <<>>
            /\ run_kpis' = <<>>
            /\ to_write' = <<>>
            /\ UNCHANGED kpi_objects
       ELSE /\ to_write' = Tail(to_write)
            /\ UNCHANGED <<kpi_objects, rpc, run_processed, run_kpis, runLog>>
    /\ UNCHANGED <<state_file, lastArg, everStored, lastRead>>
    /\ UNCHANGED <<ingestVars, raceVars>>

\* Every KPI is written: the run marks its dates processed, writing the
\* ledger it read extended by the dates it published.  A failed write raises.
WriteLedger(ok) ==
    /\ rpc = "publishing"
    /\ to_write = <<>>
    /\ LET dates == run_processed \o SortedSet(DOMAIN run_kpis)
       IN IF ok
          THEN /\ state_file' = write_state_file(dates)
               /\ lastArg' = dates
               /\ everStored' = everStored \cup Range(write_state_file(dates).processed_dates)
               /\ runLog' = EndRun(runLog, "ok")
          ELSE /\ runLog' = EndRun(runLog, "failed")
               /\ UNCHANGED <<state_file, lastArg, everStored>>
    /\ rpc' = "idle"
    /\ run_processed' = <<>>
    /\ run_kpis' = <<>>
    /\ UNCHANGED <<kpi_objects, to_write, lastRead>>
    /\ UNCHANGED <<ingestVars, raceVars>>

\* The job is killed in the middle of a run.
Crash ==
    /\ rpc = "publishing"
    /\ rpc' = "idle"
    /\ runLog' = EndRun(runLog, "failed")
    /\ run_processed' = <<>>
    /\ run_kpis' = <<>>
    /\ to_write' = <<>>
    /\ UNCHANGED <<state_file, kpi_objects, lastArg, everStored, lastRead>>
    /\ UNCHANGED <<ingestVars, raceVars>>

NextAgg ==
    \/ \E order \in ScanOrders(table), ok \in BOOLEAN : StartRun(order, ok)
    \/ \E ok \in BOOLEAN : WriteKpi(ok)
    \/ \E ok \in BOOLEAN : WriteLedger(ok)
    \/ Crash

SpecAgg == InitAgg /\ [][NextAgg]_vars

\* ------------------------------------------- the ledger functions alone
\* The lists write_state_file may be given: any order, with repetitions.
DateLists == UNION {[1..n -> Range(DateOrder)] : n \in 0..MaxArgLen}

CallWriteStateFile(processed_dates, ok) ==
    /\ IF ok
       THEN /\ state_file' = write_state_file(processed_dates)
            /\ lastArg' = processed_dates
            /\ everStored' =
                  everStored \cup Range(write_state_file(processed_dates).processed_dates)
       ELSE UNCHANGED <<state_file, lastArg, everStored>>
    /\ UNCHANGED <<kpi_objects, rpc, run_processed, run_kpis, to_write, runLog, lastRead>>
    /\ UNCHANGED <<ingestVars, raceVars>>

CallReadStateFile ==
    /\ lastRead' = read_state_file(state_file)
    /\ UNCHANGED <<state_file, kpi_objects, rpc, run_processed, run_kpis, to_write,
                   runLog, lastArg, everStored>>
    /\ UNCHANGED <<ingestVars, raceVars>>

NextLedger ==
    \/ \E processed_dates \in DateLists, ok \in BOOLEAN :
          CallWriteStateFile(processed_dates, ok)
    \/ CallReadStateFile

SpecLedger == Init /\ [][NextLedger]_vars

\* ------------------------------------- the handler on unusual valid events
\* Events that validate_record accepts although a field outside the required
\* fields of their phase, or the value of a required one, is unusual: an event
\* with both discriminators whose payment_type is whitespace (classified
\* trip_start), and a trip_end whose fare is the string '-5.00'.
FullBlankPayment1 ==
    [FullEvent("t1", "2024-06-02T09:15:00", PyFloat(3000), "2024-06-02T09:15:03.000003Z")
        EXCEPT !["payment_type"] = PyStr(" ")]
End1Negative == EndEvent("t1", "2024-06-01T10:30:00Z", PyStr("-5.00"), "2024-06-01T10:45:00.000005Z")

EdgeEvents == {Start1, End1, End1Negative, FullBlankPayment1, Start2, End2}
EdgeRecords == {JsonRecord(e) : e \in EdgeEvents}

NextEdge ==
    \/ \E n \in 0..MaxBatch, tables_ok \in BOOLEAN : Invoke(n, tables_ok)
    \/ \E r \in EdgeRecords, store_ok \in BOOLEAN : ProcessRecord(r, store_ok)
    \/ Return

SpecEdge == Init /\ [][NextEdge]_vars

\* ------------------------------------------------ validate_record alone
\* The payloads validate_record is given: for each of the nine fields, the
\* field is absent or holds one of a few values, blank ones among them.
Absent == [ty |-> "absent", s |-> "", n |-> 0]

FieldChoices ==
    {Absent, PyNone, PyStr(""), PyStr("  "), PyStr("null"), PyInt(700), PyStr("t1")}
        \X {Absent, PyInt(9300), PyNone}
        \X {Absent, PyInt(6800)}
        \X {Absent, PyStr(" "), PyInt(100)}
        \X {Absent, PyStr("2024-06-01T10:00:00Z")}
        \X {Absent, PyStr("2024-06-01T10:30:00Z"), PyStr("null")}
        \X {Absent, PyFloat(1000), PyStr("")}
        \X {Absent, PyStr("cash")}
        \X {Absent, PyFloat(250)}

\* The dict of one choice: the fields that are not absent, in the order of
\* FilterRequired.
DictOf(choice) ==
    LET IndexOf(f) == CHOOSE i \in 1..Len(FilterRequired) : FilterRequired[i] = f
        present == {FilterRequired[i] : i \in {j \in 1..Len(FilterRequired) : choice[j] # Absent}}
    IN [f \in present |-> choice[IndexOf(f)]]

ValidateInputs == {DictOf(choice) : choice \in FieldChoices}

InitValidate ==
    \E data \in ValidateInputs :
        /\ record = JsonRecord(data)
        /\ is_valid = FALSE
        /\ reason = ""
        /\ raised = "none"
        /\ store_failed = 0
        /\ batch_size = 0
        /\ table = <<>>
        /\ error_table = <<>>
        /\ pc = "idle"
        /\ remaining = 0
        /\ processed_records = 0
        /\ error_records = 0
        /\ failed_records = 0
        /\ response = NoResponse
        /\ now = 1
        /\ uuids = 0
        /\ nEvents = 0
        /\ merged = [t \in TripIds |-> {}]
        /\ qlog = <<>>
        /\ lastMerged = NoEvent
        /\ nMerged = 0
        /\ inflight = [w \in Workers |-> Idle]
        /\ raced = {}
        /\ state_file = NoStateFile
        /\ kpi_objects = <<>>
        /\ rpc = "idle"
        /\ run_processed = <<>>
        /\ run_kpis = <<>>
        /\ to_write = <<>>
        /\ runLog = <<>>
        /\ lastArg = <<>>
        /\ everStored = {}
        /\ lastRead = <<>>

\* is_valid, reason = validate_record(data)
CallValidateRecord ==
    /\ record.kind = "json"
    /\ reason = ""
    /\ is_valid' = validate_record(record.data).valid
    /\ reason' = validate_record(record.data).reason
    /\ UNCHANGED <<table, error_table, pc, remaining, processed_records, error_records,
                   failed_records, response, now, uuids, nEvents, merged, qlog,
                   lastMerged, nMerged, record, raised, store_failed, batch_size>>
    /\ UNCHANGED <<raceVars, aggVars>>

NextValidate == CallValidateRecord

SpecValidate == InitValidate /\ [][NextValidate]_vars

\* ========================================================== properties
\* The JSON value a Python value or a stored attribute stands for.
JsonOfPy(v) ==
    CASE v.ty = "str" -> <<"string", v.s, 0>>
      [] v.ty = "none" -> <<"null", "", 0>>
      [] OTHER -> <<"number", "", v.n>>

JsonOfAttr(a) ==
    CASE a.ty = "S" -> <<"string", a.s, 0>>
      [] a.ty = "NULL" -> <<"null", "", 0>>
      [] OTHER -> <<"number", "", a.n>>

\* A stored map holds the payload: the same keys, each with the same JSON value.
HoldsPayload(stored, data) ==
    /\ DOMAIN stored = DOMAIN data
    /\ \A k \in DOMAIN data : JsonOfAttr(stored[k]) = JsonOfPy(data[k])

IsPrefix(a, b) == Len(a) <= Len(b) /\ \A i \in 1..Len(a) : a[i] = b[i]
PhasesMerged(t) == {PhaseOf(e) : e \in merged[t]}
FieldsMerged(t) == UNION {DOMAIN e : e \in merged[t]}

\* The valid start and end events of one trip.
StartEndPairs ==
    {p \in ValidEvents \X ValidEvents :
        /\ PhaseOf(p[1]) = "trip_start"
        /\ PhaseOf(p[2]) = "trip_end"
        /\ p[1]["trip_id"] = p[2]["trip_id"]}

StartThenEnd(tbl, p) == MergeEvent(MergeEvent(tbl, p[1]), p[2])[p[1]["trip_id"].s]
EndThenStart(tbl, p) == MergeEvent(MergeEvent(tbl, p[2]), p[1])[p[1]["trip_id"].s]

\* C1 as stated: once a valid start and a valid end event of one trip have been
\* merged, in whichever order, the record is the one that start then end gives.
C1_Original ==
    \A p \in StartEndPairs :
        merged[p[1]["trip_id"].s] = {p[1], p[2]} =>
            table[p[1]["trip_id"].s] = StartThenEnd(<<>>, p)

\* C1 amended: the two orders give records with the same attributes that agree
\* on every attribute except those both events carry with different values,
\* where each record holds the value of the event merged last.
C1_CommutesUpToSharedFields ==
    \A p \in StartEndPairs :
        LET a == StartThenEnd(table, p)
            b == EndThenStart(table, p)
            s == expression_attribute_values(p[1])
            e == expression_attribute_values(p[2])
        IN /\ DOMAIN a = DOMAIN b
           /\ \A f \in DOMAIN a :
                \/ a[f] = b[f]
                \/ /\ f \in DOMAIN s \cap DOMAIN e
                   /\ s[f] # e[f]
                   /\ a[f] = e[f]
                   /\ b[f] = s[f]

\* Start1 then End1 have been merged into t1; the record holds End1's timestamp.
C1_Witness ==
    /\ merged["t1"] = {Start1, End1}
    /\ lastMerged = End1
    /\ table["t1"]["event_timestamp"] = AttrS(End1["event_timestamp"].s)
    /\ "pickup_location_id" \in DOMAIN table["t1"]

\* C2: merging again the event that was merged last leaves the table as it was.
C2_DuplicateMergeIsNoOp ==
    [][(nMerged' = nMerged + 1 /\ lastMerged' = lastMerged) => table' = table]_vars

\* End1 has been merged twice and nothing else was merged.
C2_Witness ==
    /\ nMerged = 2
    /\ merged["t1"] = {End1}
    /\ merged["t2"] = {}
    /\ table["t1"]["fare_amount"] = AttrN(1000)

\* C4 as stated: a trip placed in a date group has had an event of each phase
\* merged into it.
C4_Original ==
    \A t \in GroupedTripIds(table) : PhasesMerged(t) = {"trip_start", "trip_end"}

\* C4 amended: a trip placed in a date group has had every required field of
\* both phases merged into it, by events of whatever phase.
C4_CompleteNeedsBothPhasesFields ==
    \A t \in GroupedTripIds(table) :
        (Range(StartRequired) \cup Range(EndRequired)) \subseteq FieldsMerged(t) \cup {"trip_id"}

\* t1 got both phases and is grouped; t2 got its start only and is not.
C4_Witness ==
    /\ merged["t1"] = {Start1, End1}
    /\ merged["t2"] = {Start2}
    /\ GroupedTripIds(table) = {"t1"}

\* C5: after two different invalid events were quarantined under one key, its
\* record has their two reasons in arrival order and the second payload.
C5_TwoReasonsInOrder ==
    \A k \in DOMAIN qlog :
        (Len(qlog[k]) = 2 /\ qlog[k][1].data # qlog[k][2].data) =>
            /\ k \in DOMAIN error_table
            /\ error_table[k].error_reasons = <<qlog[k][1].reason, qlog[k][2].reason>>
            /\ Len(error_table[k].error_timestamps) = 2
            /\ HoldsPayload(error_table[k].original_data, qlog[k][2].data)

\* StartNoVendor1 then EndNullFare1 were quarantined under t1.
C5_Witness ==
    /\ "t1" \in DOMAIN qlog
    /\ qlog["t1"] = <<[reason |-> validate_record(StartNoVendor1).reason, data |-> StartNoVendor1],
                      [reason |-> validate_record(EndNullFare1).reason, data |-> EndNullFare1]>>
    /\ Len(error_table["t1"].error_reasons) = 2

\* C6: the two lists of an error record have the same length, and a step only
\* extends them: the record stays and its lists are prefixes of the new ones.
C6_ListsEqualAndAppendOnly ==
    /\ [](\A k \in DOMAIN error_table :
            Len(error_table[k].error_reasons) = Len(error_table[k].error_timestamps))
    /\ [][\A k \in DOMAIN error_table :
            /\ k \in DOMAIN error_table'
            /\ IsPrefix(error_table[k].error_reasons, error_table'[k].error_reasons)
            /\ IsPrefix(error_table[k].error_timestamps, error_table'[k].error_timestamps)]_vars

\* A record has been extended to two entries while another record exists.
C6_Witness ==
    \E k \in DOMAIN error_table :
        /\ Len(error_table[k].error_reasons) = 2
        /\ error_table[k].error_timestamps[1] < error_table[k].error_timestamps[2]
        /\ \E u \in DOMAIN error_table : u # k /\ Len(error_table[u].error_reasons) = 1

\* The merge of worker w is applied in this step.
MergeApplied(w) == inflight[w].pc = "merge" /\ inflight'[w].pc = "idle"

\* C3: with merges racing, the record holds every field of every merged event,
\* with a value one of those events gave it, and a step changes an attribute
\* only when it applies a merge for that trip whose payload names the attribute.
C3_NoLostUpdate ==
    /\ [](\A t \in TripIds : \A e \in merged[t] :
            /\ t \in DOMAIN table
            /\ \A f \in DOMAIN e \ {"trip_id"} :
                /\ f \in DOMAIN table[t]
                /\ \E e2 \in merged[t] :
                     f \in DOMAIN e2 /\ table[t][f] = expression_attribute_values(e2)[f])
    /\ [][\A t \in DOMAIN table :
            /\ t \in DOMAIN table'
            /\ \A f \in DOMAIN table[t] :
                /\ f \in DOMAIN table'[t]
                /\ (table'[t][f] # table[t][f] =>
                      \E w \in Workers :
                          /\ MergeApplied(w)
                          /\ inflight[w].key = t
                          /\ f \in DOMAIN inflight[w].data \ {"trip_id"})]_vars

\* Start1 and End1 were in flight together and both have been applied.
C3_Witness ==
    /\ "merge" \in raced
    /\ merged["t1"] = {Start1, End1}
    /\ \A w \in Workers : inflight[w].pc = "idle"
    /\ table["t1"]["pickup_location_id"] = AttrN(9300)
    /\ table["t1"]["fare_amount"] = AttrN(1000)

\* C7: with quarantine writes racing, every key holds exactly as many reasons
\* and timestamps as writes were applied to it, each write's reason among them.
C7_NoLostFailure ==
    /\ DOMAIN error_table = DOMAIN qlog
    /\ \A k \in DOMAIN qlog :
        /\ Len(error_table[k].error_reasons) = Len(qlog[k])
        /\ Len(error_table[k].error_timestamps) = Len(qlog[k])
        /\ \A i \in DOMAIN qlog[k] : error_table[k].error_reasons[i] = qlog[k][i].reason

\* Two writes for t1 were stamped before either was applied, and the one
\* stamped later was applied first, creating the record.
C7_Witness ==
    /\ "quarantine" \in raced
    /\ "t1" \in DOMAIN error_table
    /\ Len(error_table["t1"].error_reasons) = 2
    /\ error_table["t1"].error_timestamps[1] > error_table["t1"].error_timestamps[2]
    /\ \A w \in Workers : inflight[w].pc = "idle"

\* C8: once a run has completed, every later run over the unchanged table
\* plans and publishes no date, and the dates the completed run published are
\* in the ledger.
C8_SecondRunPublishesNothing ==
    \A i \in DOMAIN runLog :
        runLog[i].status = "ok" =>
            /\ runLog[i].published \subseteq Range(state_file.processed_dates)
            /\ \A j \in DOMAIN runLog :
                 j > i => runLog[j].published = {} /\ DOMAIN runLog[j].plan = {}

\* A first run published three dates and completed; a second run completed
\* and published nothing.
C8_Witness ==
    /\ Len(runLog) >= 2
    /\ runLog[1].status = "ok"
    /\ Cardinality(runLog[1].published) = 3
    /\ runLog[2].status = "ok"
    /\ runLog[2].published = {}

\* C9 as stated: a date that the state file ever held is still in it.
C9_Original == everStored \subseteq Range(state_file.processed_dates)

StrictlySorted(dates) ==
    \A i, j \in DOMAIN dates : i < j => DateRank(dates[i]) < DateRank(dates[j])

\* C9 amended: the state file holds the dates of the latest argument alone,
\* each once, in sorted order, whatever the order and repetitions of the
\* argument and whatever the file held before; read_state_file returns them.
C9_StoresArgumentAsSortedSet ==
    state_file.present =>
        /\ Range(state_file.processed_dates) = Range(lastArg)
        /\ StrictlySorted(state_file.processed_dates)
        /\ read_state_file(state_file) = state_file.processed_dates

\* An unsorted list with a repetition was written over a file that held
\* another date.
C9_Witness ==
    /\ lastArg = <<"2024-06-02", "2024-06-01", "2024-06-02">>
    /\ state_file.processed_dates = <<"2024-06-01", "2024-06-02">>
    /\ "2024-06-03" \in everStored
    /\ lastRead = <<"2024-06-01", "2024-06-02">>

\* The run in progress, or the latest one.
LastRun == runLog[Len(runLog)]

\* C10: the ledger changes only in a step of a run all of whose KPIs are in
\* S3; a step that ends a run as failed leaves the ledger as it was; and the
\* run after a failed run plans the same KPIs.
C10_LedgerAfterOutputs ==
    /\ [](\A i \in DOMAIN runLog :
            (i > 1 /\ runLog[i - 1].status = "failed" /\ runLog[i - 1].planned
                /\ runLog[i].planned) => runLog[i].plan = runLog[i - 1].plan)
    /\ [][/\ state_file' # state_file =>
                /\ rpc = "publishing"
                /\ LastRun.published = DOMAIN LastRun.plan
                /\ \A d \in DOMAIN LastRun.plan : kpi_objects[d] = LastRun.plan[d]
          /\ (runLog' # runLog /\ runLog'[Len(runLog')].status = "failed") =>
                state_file' = state_file]_vars

\* A run failed after writing one of its three KPIs, the ledger stayed absent,
\* and the retry wrote all three and marked them processed.
C10_Witness ==
    /\ Len(runLog) = 2
    /\ runLog[1].status = "failed"
    /\ Cardinality(runLog[1].published) = 1
    /\ runLog[2].status = "ok"
    /\ runLog[2].plan = runLog[1].plan
    /\ Cardinality(runLog[2].published) = 3
    /\ Len(state_file.processed_dates) = 3

\* ------------------------------------------------ failures inside a batch
\* The invocation returns in this step.
Returns == pc = "loop" /\ pc' = "idle"

\* An iteration of the loop is done in this step.
Handles == nEvents' = nEvents + 1

\* C11 as stated: an invocation in which an update_item of TripData or of
\* TripDataErrors raised does not report success: it does not return 200.
C11_Original ==
    [][(Returns /\ store_failed > 0) => response'.statusCode # 200]_vars

\* What handling a record leaves in the two tables, ok telling whether its
\* update_item succeeded.
HandledTable(rec, ok) ==
    IF rec.kind = "json" /\ validate_record(rec.data).valid /\ ok
    THEN MergeEvent(table, rec.data)
    ELSE table

HandledErrors(rec, ok) ==
    IF rec.kind = "json" /\ ~validate_record(rec.data).valid /\ ok
    THEN upsert_error_record(error_table, QuarantineKey(rec.data, uuids),
                             validate_record(rec.data).reason, rec.data, now)
    ELSE error_table

\* C12: a record that fails (decode, validation or store) does not end the
\* batch: every record of the batch is handled and counted, the loop goes on
\* after each one, a record that raised leaves both tables as they were, and
\* each record is written as the record and the tables alone determine,
\* whatever failed before it in the batch.
C12_BatchNeverAborted ==
    /\ [](pc = "loop" =>
            remaining + processed_records + error_records + failed_records = batch_size)
    /\ [][Handles =>
            /\ pc' = "loop"
            /\ remaining' = remaining - 1
            /\ table' = HandledTable(record', raised' = "none")
            /\ error_table' = HandledErrors(record', raised' = "none")
            /\ (raised' # "none" => table' = table /\ error_table' = error_table)]_vars

\* The first record of a batch of two failed and the second, Start1, was merged.
C12_Witness ==
    /\ batch_size = 2
    /\ remaining = 0
    /\ failed_records = 1
    /\ processed_records = 1
    /\ record = JsonRecord(Start1)
    /\ raised = "none"
    /\ "t1" \in DOMAIN table

\* A trip_id that cannot serve as a key: absent, null, no string, blank or 'null'.
UnusableId(data) ==
    \/ "trip_id" \notin DOMAIN data
    \/ data["trip_id"].ty # "str"
    \/ data["trip_id"].s \in {"", " ", "  ", "null"}

\* C15: an event whose trip_id is 'null', blank, absent or no string is never
\* merged into TripData and never stored under the key 'null' or a blank key;
\* when its quarantine write succeeds, it creates one error record under a
\* generated identifier that holds the event's payload, and no other error
\* record changes.
C15_NullIdUnderSyntheticKey ==
    /\ [](\A k \in DOMAIN table \cup DOMAIN error_table : k \notin {"", " ", "  ", "null"})
    /\ [][(Handles /\ record'.kind = "json" /\ UnusableId(record'.data)) =>
            /\ table' = table
            /\ ~is_valid'
            /\ reason' = "Missing or invalid trip_id"
            /\ (raised' = "none" =>
                  /\ DOMAIN error_table' = DOMAIN error_table \cup {Uuid(uuids')}
                  /\ Uuid(uuids') \notin DOMAIN error_table
                  /\ HoldsPayload(error_table'[Uuid(uuids')].original_data, record'.data)
                  /\ \A k \in DOMAIN error_table : error_table'[k] = error_table[k])]_vars

\* NullIdStart, whose trip_id is 'null', has been quarantined under a
\* generated identifier.
C15_Witness ==
    /\ record = JsonRecord(NullIdStart)
    /\ raised = "none"
    /\ Uuid(uuids) \in DOMAIN error_table
    /\ error_table[Uuid(uuids)].original_data["trip_id"] = AttrS("null")
    /\ error_table[Uuid(uuids)].error_reasons = <<"Missing or invalid trip_id">>

\* Only the item under key differs between two tables, and it is in the new one.
OnlyItemWritten(old, new, key) ==
    /\ DOMAIN new = DOMAIN old \cup {key}
    /\ \A k \in DOMAIN old \ {key} : new[k] = old[k]

\* C20: an iteration writes at most one table, the one its record's class
\* names.  A valid event leaves TripDataErrors alone and, when its update_item
\* succeeds, changes only the item of its trip_id, which then holds every field
\* of the payload.  An invalid event leaves TripData alone and, when its
\* update_item succeeds, changes only one error record, which gets one more
\* reason and timestamp.  An undecodable record, or a failed update_item,
\* changes neither table.
C20_OneWriteRoutedByClass ==
    [][Handles =>
        IF record'.kind = "undecodable"
        THEN table' = table /\ error_table' = error_table
        ELSE IF validate_record(record'.data).valid
        THEN /\ error_table' = error_table
             /\ IF raised' = "none"
                THEN /\ OnlyItemWritten(table, table', record'.data["trip_id"].s)
                     /\ \A f \in DOMAIN record'.data :
                          /\ f \in DOMAIN table'[record'.data["trip_id"].s]
                          /\ JsonOfAttr(table'[record'.data["trip_id"].s][f])
                                = JsonOfPy(record'.data[f])
                ELSE table' = table
        ELSE /\ table' = table
             /\ IF raised' = "none"
                THEN \E k \in DOMAIN error_table' :
                        /\ OnlyItemWritten(error_table, error_table', k)
                        /\ Len(error_table'[k].error_reasons)
                             = 1 + (IF k \in DOMAIN error_table
                                    THEN Len(error_table[k].error_reasons) ELSE 0)
                        /\ Len(error_table'[k].error_timestamps)
                             = Len(error_table'[k].error_reasons)
                ELSE error_table' = error_table]_vars

\* One batch held a valid event, merged into TripData alone, and an invalid
\* one, quarantined in TripDataErrors alone.
C20_Witness ==
    /\ batch_size = 2
    /\ remaining = 0
    /\ processed_records = 1
    /\ error_records = 1
    /\ Cardinality(DOMAIN table) = 1
    /\ Cardinality(DOMAIN error_table) = 1
    /\ record.kind = "json"
    /\ ~is_valid

\* ------------------------------------------------------- classification
\* validate_record has returned for the payload of record.
Validated == reason # ""

\* C13: a payload whose trip_id is absent, null, empty, whitespace, 'null' or
\* no string is invalid with the reason 'Missing or invalid trip_id', whatever
\* discriminators and other fields it carries.
C13_InvalidTripIdReason ==
    (Validated /\ UnusableId(record.data)) =>
        ~is_valid /\ reason = "Missing or invalid trip_id"

\* A payload with trip_id 'null' and both discriminators has been validated.
C13_Witness ==
    /\ Validated
    /\ ~is_valid
    /\ "trip_id" \in DOMAIN record.data
    /\ record.data["trip_id"] = PyStr("null")
    /\ {"pickup_location_id", "dropoff_datetime"} \subseteq DOMAIN record.data
    /\ record.data["pickup_location_id"] = PyInt(9300)

\* A field of the payload that is present and not blank.
FieldOk(data, f) ==
    /\ f \in DOMAIN data
    /\ data[f].ty # "none"
    /\ ~(data[f].ty = "str" /\ data[f].s \in {"", " ", "  ", "null"})

\* The result for a phase: valid exactly when every required field is there
\* and not blank, else the reason names the first required field that is not.
PhaseResult(data, required_fields, phase) ==
    /\ is_valid <=> \A i \in 1..Len(required_fields) : FieldOk(data, required_fields[i])
    /\ is_valid => reason = phase
    /\ ~is_valid =>
         \E i \in 1..Len(required_fields) :
            /\ ~FieldOk(data, required_fields[i])
            /\ \A j \in 1..(i - 1) : FieldOk(data, required_fields[j])
            /\ reason = "Missing, null, or blank required field '"
                           \o required_fields[i] \o "' in " \o phase

\* C14: with a usable trip_id the phase follows from presence alone:
\* pickup_location_id present gives start, even with dropoff_datetime present;
\* else dropoff_datetime present gives end; else the event is of unknown type.
\* The event is valid for its phase exactly when all required fields of the
\* phase are present and not blank, and the reason names the first that fails.
C14_PhaseByPresence ==
    (Validated /\ ~UnusableId(record.data)) =>
        IF "pickup_location_id" \in DOMAIN record.data
        THEN PhaseResult(record.data, StartRequired, "trip_start")
        ELSE IF "dropoff_datetime" \in DOMAIN record.data
        THEN PhaseResult(record.data, EndRequired, "trip_end")
        ELSE ~is_valid /\ reason = "Unknown record type - missing key fields"

\* A payload with both discriminators, a blank vendor_id and no
\* pickup_datetime has been validated: the reason names vendor_id.
C14_Witness ==
    /\ Validated
    /\ ~UnusableId(record.data)
    /\ {"pickup_location_id", "dropoff_location_id", "vendor_id", "dropoff_datetime"}
          \subseteq DOMAIN record.data
    /\ record.data["pickup_location_id"] = PyInt(9300)
    /\ record.data["vendor_id"] = PyStr(" ")
    /\ "pickup_datetime" \notin DOMAIN record.data
    /\ reason = "Missing, null, or blank required field 'vendor_id' in trip_start"

\* ------------------------------------------------- the completeness filter
\* Blank as the validator defines it, for a value parsed from the table: null
\* (an attribute of type NULL), a string of whitespace only, or 'null'.
BlankParsed(val) ==
    \/ val.ty \in {"none", "dict"}
    \/ (val.ty = "str" /\ val.s \in {"", " ", "  ", "null"})

\* C16 as stated: every trip that a scan of the table places in a date group
\* has each of the nine required fields present and not blank.
C16_Original ==
    \A order \in ScanOrders(table) :
        LET groups == filter_completed_trips(scan_dynamodb(table, order))
        IN \A d \in DOMAIN groups : \A i \in DOMAIN groups[d] :
              \A j \in 1..Len(FilterRequired) :
                 /\ FilterRequired[j] \in DOMAIN groups[d][i]
                 /\ ~BlankParsed(groups[d][i][FilterRequired[j]])

\* A value the filter turns down for a required field: '' or 'null', or a
\* fare that is no positive decimal, or a dropoff_datetime that is no timestamp.
RejectedValue(f, v) ==
    \/ (v.ty = "str" /\ v.s \in {"", "null"})
    \/ /\ f = "fare_amount"
       /\ ~(v.ty \in {"int", "float", "Decimal"} /\ v.n > 0)
       /\ ~(v.ty = "str" /\ v.s \in {"12.50", "10.00", "20.00", "30.00"})
    \/ /\ f = "dropoff_datetime"
       /\ ~(v.ty = "str" /\ v.s \in {"2024-06-01T10:30:00Z", "2024-06-02T09:15:00",
                                     "2024-06-03T23:59:59Z"})

CarriesRejected(e) ==
    \E f \in DOMAIN e \cap Range(FilterRequired) : RejectedValue(f, e[f])

\* C18 as stated: a trip that a scan places in a date group is placed in one
\* by every scan after any further step.
C18_Original ==
    [][GroupedTripIds(table) \subseteq GroupedTripIds(table')]_vars

\* C18 amended: a trip that is placed in a date group stays placed in one
\* after every further step, unless the step merges into it an event that
\* carries, for a required field, a value the filter turns down.
C18_CompleteUnlessRejectedValueMerged ==
    [][\A t \in GroupedTripIds(table) :
          \/ t \in GroupedTripIds(table')
          \/ /\ nMerged' = nMerged + 1
             /\ lastMerged'["trip_id"].s = t
             /\ CarriesRejected(lastMerged')]_vars

\* Start1 and End1 made t1 complete, then Start1 was merged again, and t1 is
\* still placed in a date group.
C18_Witness ==
    /\ nMerged = 3
    /\ merged["t1"] = {Start1, End1}
    /\ lastMerged = Start1
    /\ GroupedTripIds(table) = {"t1"}

\* ------------------------------------------------------------- the KPIs
\* The fare stored in an item, in hundredths.
StoredFare(item) ==
    IF item["fare_amount"].ty = "N" THEN item["fare_amount"].n
    ELSE CASE item["fare_amount"].s = "12.50" -> 1250
           [] item["fare_amount"].s = "10.00" -> 1000
           [] item["fare_amount"].s = "20.00" -> 2000
           [] item["fare_amount"].s = "30.00" -> 3000

RECURSIVE FareSum(_)
FareSum(ids) ==
    IF ids = {} THEN 0
    ELSE LET t == CHOOSE t \in ids : TRUE
         IN StoredFare(table[t]) + FareSum(ids \ {t})

\* The KPI record k is the one of date d for the trips ids of the table.
KpiCorrect(k, d, ids) ==
    /\ k.date = d
    /\ k.count_trips = Cardinality(ids)
    /\ k.total_fare = Finite(FareSum(ids))
    /\ ~k.average_fare.nan
    /\ k.average_fare.den > 0
    /\ k.average_fare.num * k.count_trips = k.total_fare.n * k.average_fare.den
    /\ \E t \in ids : k.max_fare = Finite(StoredFare(table[t]))
    /\ \A t \in ids : StoredFare(table[t]) <= k.max_fare.n
    /\ \E t \in ids : k.min_fare = Finite(StoredFare(table[t]))
    /\ \A t \in ids : k.min_fare.n <= StoredFare(table[t])
    /\ ({StoredFare(table[t]) : t \in ids} = {1000, 2000, 3000} /\ Cardinality(ids) = 3) =>
          k = [date |-> d, total_fare |-> Finite(6000), count_trips |-> 3,
               average_fare |-> [nan |-> FALSE, num |-> 2000, den |-> 1],
               max_fare |-> Finite(3000), min_fare |-> Finite(1000)]

\* C17: for the trips a scan groups under a date, calculate_kpis gives that
\* date the number of trips, the sum of their fares, the sum divided by the
\* number, and the largest and the smallest fare; fares 10.00, 20.00 and 30.00
\* give 3, 60.00, 20.00, 30.00 and 10.00.
C17_KpiValues ==
    \A order \in ScanOrders(table) :
        LET groups == filter_completed_trips(scan_dynamodb(table, order))
            result == calculate_kpis(groups)
            kpis == result.kpis
        IN /\ ~result.raised
           /\ DOMAIN kpis = DOMAIN groups
           /\ \A d \in DOMAIN groups :
                 KpiCorrect(kpis[d], d, {groups[d][i]["trip_id"].s : i \in DOMAIN groups[d]})

\* The table holds three trips of 2024-06-01 with fares 10.00, 20.00 and
\* 30.00; a run computed the KPI of that date and wrote it to S3.
C17_Witness ==
    /\ Len(runLog) = 1
    /\ "2024-06-01" \in DOMAIN runLog[1].plan
    /\ runLog[1].plan["2024-06-01"].count_trips = 3
    /\ {StoredFare(table[t]) : t \in DOMAIN table} = {1000, 2000, 3000}
    /\ runLog[1].plan["2024-06-01"].total_fare = Finite(6000)
    /\ runLog[1].plan["2024-06-01"].average_fare = [nan |-> FALSE, num |-> 2000, den |-> 1]
    /\ "2024-06-01" \in DOMAIN kpi_objects
    /\ kpi_objects["2024-06-01"].max_fare = Finite(3000)
    /\ kpi_objects["2024-06-01"].min_fare = Finite(1000)

\* The stored fare is no positive decimal.
BadFare(item) ==
    /\ "fare_amount" \in DOMAIN item
    /\ \/ item["fare_amount"].ty = "NULL"
       \/ (item["fare_amount"].ty = "N" /\ item["fare_amount"].n <= 0)
       \/ /\ item["fare_amount"].ty = "S"
          /\ item["fare_amount"].s \notin {"12.50", "10.00", "20.00", "30.00"}

\* The item has all nine fields and a dropoff_datetime that gives a date.
CompleteButFare(item) ==
    /\ AllRequiredPresent(parse_dynamodb_item(item))
    /\ dropoff_date(parse_dynamodb_item(item)) # ""

\* C19: a record whose fare is no positive decimal is in no date group of any
\* scan and counts in no KPI; the records around it in the scan that are
\* complete with a positive fare are grouped all the same; and no step of the
\* aggregation writes to TripDataErrors.
C19_BadFareExcluded ==
    /\ [](\A order \in ScanOrders(table) :
            LET groups == filter_completed_trips(scan_dynamodb(table, order))
                good == {t \in DOMAIN table : CompleteButFare(table[t]) /\ ~BadFare(table[t])}
            IN /\ TripIdsIn(groups) = good
               /\ \A r \in DOMAIN runLog : \A d \in DOMAIN runLog[r].plan :
                     /\ ~runLog[r].plan[d].min_fare.nan
                     /\ runLog[r].plan[d].min_fare.n > 0
                     /\ runLog[r].plan[d].count_trips
                          = Cardinality({t \in good :
                                dropoff_date(parse_dynamodb_item(table[t])) = d}))
    /\ [][error_table' = error_table]_vars

\* A run planned its KPIs over a table in which t2 has a fare of zero and t1 a
\* fare of 10.00: the KPI of the date counts one trip.
C19_Witness ==
    /\ Len(runLog) >= 1
    /\ runLog[1].planned
    /\ DOMAIN table = {"t1", "t2"}
    /\ table["t2"]["fare_amount"] = AttrN(0)
    /\ table["t2"]["dropoff_datetime"] = AttrS("2024-06-01T10:30:00Z")
    /\ "2024-06-01" \in DOMAIN runLog[1].plan
    /\ runLog[1].plan["2024-06-01"].count_trips = 1
    /\ error_table = <<>>

\* ------------------------------------------------------ the three counters
\* C21: when the handler returns 200 for a batch that was not empty, the
\* three numbers it reports add up to the number of records of the batch;
\* and each iteration adds one to exactly one counter: to processed_records
\* when its merge into TripData succeeded, to error_records when its
\* quarantine write succeeded, to failed_records in every other case.
C21_CountersSumToBatch ==
    /\ [][(Returns /\ response'.statusCode = 200) =>
            /\ batch_size > 0
            /\ response'.processed = processed_records
            /\ response'.errors = error_records
            /\ response'.failed = failed_records
            /\ response'.processed + response'.errors + response'.failed = batch_size]_vars
    /\ [][Handles =>
            LET merge_ok == table' = HandledTable(record', TRUE)
                               /\ record'.kind = "json" /\ is_valid' /\ raised' = "none"
                quarantine_ok == error_table' = HandledErrors(record', TRUE)
                               /\ record'.kind = "json" /\ ~is_valid' /\ raised' = "none"
            IN /\ processed_records' = processed_records + (IF merge_ok THEN 1 ELSE 0)
               /\ error_records' = error_records + (IF quarantine_ok THEN 1 ELSE 0)
               /\ failed_records' = failed_records
                                      + (IF merge_ok \/ quarantine_ok THEN 0 ELSE 1)
               /\ (raised' # "none" <=> ~(merge_ok \/ quarantine_ok))]_vars

\* A batch of two, one record merged and one failed, has returned 200 with
\* the counts 1, 0 and 1.
C21_Witness ==
    /\ pc = "idle"
    /\ response = [statusCode |-> 200, processed |-> 1, errors |-> 0, failed |-> 1]
    /\ nEvents = 2
    /\ nMerged = 1

\* The keys of TripDataErrors that were generated.
GeneratedKeys == {k \in DOMAIN error_table : \E i \in 1..uuids : k = Uuid(i)}

\* The quarantine writes done for events without a usable trip_id.
RECURSIVE UnusableLogged(_)
UnusableLogged(keys) ==
    IF keys = {} THEN 0
    ELSE LET k == CHOOSE k \in keys : TRUE
         IN Cardinality({i \in DOMAIN qlog[k] : UnusableId(qlog[k][i].data)})
              + UnusableLogged(keys \ {k})

\* C22: every event without a usable trip_id is quarantined under an
\* identifier of its own: each generated key holds exactly one reason and one
\* timestamp and the payload of such an event, there are as many generated
\* keys as such events were quarantined, no generated key is a trip_id of an
\* event or a key of TripData, and the step that quarantines such an event
\* creates its record and changes no record that was there.
C22_FreshKeyPerBlankId ==
    /\ [](/\ \A k \in GeneratedKeys :
                /\ Len(error_table[k].error_reasons) = 1
                /\ Len(error_table[k].error_timestamps) = 1
                /\ k \notin TripIds \cup DOMAIN table
                /\ Len(qlog[k]) = 1
                /\ UnusableId(qlog[k][1].data)
          /\ Cardinality(GeneratedKeys) = UnusableLogged(DOMAIN qlog))
    /\ [][(Handles /\ record'.kind = "json" /\ UnusableId(record'.data) /\ raised' = "none") =>
            \E k \in DOMAIN error_table' \ DOMAIN error_table :
                /\ DOMAIN error_table' = DOMAIN error_table \cup {k}
                /\ \A o \in DOMAIN error_table : error_table'[o] = error_table[o]]_vars

\* NullIdStart and NoIdEnd were both quarantined: two generated keys, each
\* with one reason.
C22_Witness ==
    /\ Cardinality(GeneratedKeys) = 2
    /\ \E k \in GeneratedKeys : qlog[k] = <<[reason |-> "Missing or invalid trip_id",
                                            data |-> NullIdStart]>>
    /\ \E k \in GeneratedKeys : qlog[k] = <<[reason |-> "Missing or invalid trip_id",
                                            data |-> NoIdEnd]>>

====
